---- MODULE Spec2Model ----
(***************************************************************************)
(* A model of the quiz pipeline of LLM_Analysis_Quiz:                      *)
(*   - QuizSolver._parse_quiz_data, solve_quiz, solve_all                  *)
(*                                           (src/src/quiz_solver.py)      *)
(*   - submit_quiz / process_quiz_submission (src/src/main.py)             *)
(*   - BrowserManager.__aenter__/__aexit__, submit_quiz_answers,           *)
(*     submit_quiz_answer, extract_text_from_file, _identify_questions     *)
(*                                           (src/src/browser.py)          *)
(*   - the handlers of src/app.py and src/src/main.py serving concurrent   *)
(*     requests, each with its own BrowserManager                          *)
(* Text is a sequence of one-character strings, time is whole seconds.     *)
(***************************************************************************)
EXTENDS Integers, Sequences, FiniteSets, TLC

VARIABLES
    \* ---- QuizSolver(quiz_data) ----
    quiz_data,      \* the dictionary handed to QuizSolver.__init__
    ps_pc,          \* "new" | "parsed" | "raised"
    questions,      \* QuizSolver.questions
    \* ---- submit_quiz / process_quiz_submission ----
    pc,             \* position of the request handler
    req,            \* the QuizRequest
    timeout,        \* the `timeout` argument of process_quiz_submission
    clock,          \* seconds elapsed since start_time
    timerFired,     \* asyncio.wait_for has cancelled the task
    exc,            \* exception in flight: "none" | "Exception" | "CancelledError"
    failedAt,       \* the statement that raised the exception in flight
    playwright,     \* "none" | "running" | "stopped"
    browser,        \* "none" | "open" | "closed"
    retval,         \* value of the `return` statement waiting for __aexit__
    result,         \* what process_quiz_submission returned to its caller
    response,       \* what submit_quiz answered
    submitCalls,    \* number of calls of solver.submit_answers
    solveLeft,      \* time_remaining() when the solving statement was left
    failClock,      \* the clock when the exception in flight was raised
    \* ---- BrowserManager.submit_quiz_answers ----
    sq_pc,          \* "call" | "loop" | "backoff" | "returned"
    max_retries,    \* the max_retries argument
    retry_count,
    last_error,
    attempts,       \* one record per attempt (one page.goto each)
    sleeps,         \* the arguments of the asyncio.sleep calls, in order
    sq_result,      \* the returned dictionary
    \* ---- BrowserManager.submit_quiz_answer ----
    sa_pc,          \* "call" | "navigated" | "queried" | "returned" | "raised"
    sa_page,        \* the page behind the submission URL
    sa_forms,       \* what page.query_selector_all('form') returned
    sa_invoked,     \* the delivery sub-routines invoked, in order
    sa_raisedIn,    \* the statement whose exception left the call
    sa_result,      \* the returned dictionary
    \* ---- QuizSolver.solve_quiz / QuizSolver.solve_all ----
    sv_pc,          \* "off" | "call" | "loop" | "returned" | "raised"
    sv_method,      \* "solve_quiz" | "solve_all"
    sv_questions,   \* self.questions
    sv_i,           \* the position of the loop in self.questions, from 1
    sv_out,         \* the list being built (results / answers)
    \* ---- BrowserManager.extract_text_from_file ----
    fx_pc,          \* "off" | "call" | "exists" | "typed" | "returned" | "raised"
    fx_call,        \* the file, the content_type argument and the environment
    fx_type,        \* the local content_type once resolved
    fx_result,      \* the `result` dictionary
    fx_routines,    \* the extraction routines invoked, in order
    fx_raised,      \* the exception that left the call
    \* ---- BrowserManager._identify_questions ----
    dq_pc,          \* "off" | "page" | "identified"
    dq_content,     \* quiz_data['content']
    dq_questions,   \* the returned list
    \* ---- concurrent requests and their browser sessions ----
    rq_handler,     \* request -> the handler serving it
    rq_in,          \* request -> what it carries: secret right or not, client within its rate or not
    rq_pc,          \* request -> "off" | "received" | "admitted" | "rejected" | "inside" | "leaving" | "answered"
    rq_step,        \* request -> the number of page operations completed
    rq_session,     \* request -> the session of its local `browser`, 0 if none
    sessions,       \* the sessions created so far: who created each, open or not
    uses,           \* the page operations performed: by whom, on which session
    \* ---- BrowserManager._submit_via_form ----
    fm_pc,          \* "off" | "fields" | "submitted"
    fm_form,        \* key -> the type of the form's control for it, or "absent"
    fm_answer,      \* the kind of answer_data['answer']
    fm_i,           \* the position of the loop in answer_data.items(), from 1
    fm_ops,         \* the operations performed on controls, in order
    \* ---- check_rate_limit ----
    rl_pc,          \* "off" | "serving"
    rl_ip,          \* the client whose requests arrive
    rl_clock,       \* int(time.time())
    rate_limit_cache, \* client -> the list of its recorded times
    rl_admitted,    \* time -> the number of calls that returned True at it
    rl_ret,         \* what the last call returned
    \* ---- CacheManager ----
    ch_pc,          \* "off" | "serving"
    ch_clock,       \* datetime.utcnow()
    request_cache,  \* request id -> its entry, or Absent
    ch_got,         \* what the last get_request returned, and when
    \* ---- BrowserManager.download_file ----
    dl_pc,          \* call -> "off" | "called" | "waiting" | "saved" | "returned" | "raised"
    dl_url,         \* call -> its url argument
    dl_path,        \* call -> its save_path once chosen
    dl_files,       \* path -> the URL whose file is stored there, or NoFile
    dl_result       \* call -> the URL whose file the call read and reports

parseVars == <<quiz_data, ps_pc, questions>>
runVars == <<pc, req, timeout, clock, timerFired, exc, failedAt, playwright,
             browser, retval, result, response, submitCalls, solveLeft,
             failClock>>
retryVars == <<sq_pc, max_retries, retry_count, last_error, attempts, sleeps,
               sq_result>>
submitVars == <<sa_pc, sa_page, sa_forms, sa_invoked, sa_raisedIn, sa_result>>
solveVars == <<sv_pc, sv_method, sv_questions, sv_i, sv_out>>
pipelineVars == <<parseVars, runVars, retryVars, submitVars>>
fileVars == <<fx_pc, fx_call, fx_type, fx_result, fx_routines, fx_raised>>
detectVars == <<dq_pc, dq_content, dq_questions>>
sessionVars == <<rq_handler, rq_in, rq_pc, rq_step, rq_session, sessions, uses>>
formVars == <<fm_pc, fm_form, fm_answer, fm_i, fm_ops>>
rateVars == <<rl_pc, rl_ip, rl_clock, rate_limit_cache, rl_admitted, rl_ret>>
cacheVars == <<ch_pc, ch_clock, request_cache, ch_got>>
downloadVars == <<dl_pc, dl_url, dl_path, dl_files, dl_result>>
helperVars ==
    <<solveVars, fileVars, detectVars, sessionVars,
      formVars, rateVars, cacheVars, downloadVars>>
vars == <<pipelineVars, helperVars>>

\* Python's None where a text is expected
None == <<"None">>

Min(a, b) == IF a < b THEN a ELSE b
Max(a, b) == IF a > b THEN a ELSE b

\* ------------------------------------------------------------------ text

\* str(n) for n >= 0
RECURSIVE Str(_)
Str(n) ==
    LET d == <<"0", "1", "2", "3", "4", "5", "6", "7", "8", "9">>[(n % 10) + 1]
    IN  IF n < 10 THEN <<d>> ELSE Str(n \div 10) \o <<d>>

\* f"q{n}"
QId(n) == <<"q">> \o Str(n)

IsSpace(c) == c \in {" ", "\n", "\t"}

RECURSIVE LStrip(_)
LStrip(s) == IF s # <<>> /\ IsSpace(Head(s)) THEN LStrip(Tail(s)) ELSE s

RECURSIVE RStrip(_)
RStrip(s) ==
    IF s # <<>> /\ IsSpace(s[Len(s)]) THEN RStrip(SubSeq(s, 1, Len(s) - 1)) ELSE s

\* str.strip()
Strip(s) == RStrip(LStrip(s))

LowerChar(c) ==
    CASE c = "A" -> "a" [] c = "D" -> "d" [] c = "F" -> "f" [] c = "T" -> "t"
      [] OTHER -> c

\* str.lower()
Lower(s) == [i \in 1..Len(s) |-> LowerChar(s[i])]

\* kw in s
Contains(s, kw) ==
    \E i \in 1..(Len(s) - Len(kw) + 1) : SubSeq(s, i, i + Len(kw) - 1) = kw

KwBoolean == {<<"t","r","u","e"," ","o","r"," ","f","a","l","s","e">>,
              <<"t","r","u","e","/","f","a","l","s","e">>}
KwMultiple == {<<"s","e","l","e","c","t"," ","a","l","l">>,
               <<"c","h","e","c","k"," ","a","l","l">>}
KwFile == {<<"f","i","l","e">>, <<"u","p","l","o","a","d">>}
KwNumber == {<<"h","o","w"," ","m","a","n","y">>, <<"c","o","u","n","t">>,
             <<"n","u","m","b","e","r"," ","o","f">>}
KwJson == {<<"j","s","o","n">>, <<"a","p","i">>, <<"d","a","t","a">>}

\* QuizSolver._determine_question_type
DetermineQuestionType(question_text) ==
    LET t == Lower(question_text)
        any(kws) == \E kw \in kws : Contains(t, kw)
    IN  IF any(KwBoolean) THEN "boolean"
        ELSE IF any(KwMultiple) THEN "multiple_choice"
        ELSE IF any(KwFile) THEN "file"
        ELSE IF any(KwNumber) THEN "number"
        ELSE IF any(KwJson) THEN "json"
        ELSE "text"

\* ------------------------------------------------- QuizSolver parsing

\* QuizQuestion(question_id, question_text, question_type, options).  The
\* options are kept by their kind: "None" (the dataclass default), "empty"
\* ([]), "list" (a non-empty list), "mapping" (a non-empty JSON object).
QuizQuestion(id, text, type, options) ==
    [question_id |-> id, question_text |-> text, question_type |-> type,
     options |-> options]

\* q.get('id', f"q{len(self.questions) + 1}")
EntryId(q, qs) == IF q.id = None THEN QId(Len(qs) + 1) ELSE q.id

\* q.get('type', 'text'); an entry without a 'type' key has type ""
EntryType(q) == IF q.type = "" THEN "text" ELSE q.type

\* q.get('options', []); an entry without an 'options' key has options "empty"
EntryOptions(q) == q.options

\* the loop over quiz_data['questions']
RECURSIVE ParseEntries(_, _)
ParseEntries(entries, qs) ==
    IF entries = <<>> THEN qs
    ELSE LET q == Head(entries)
         IN  ParseEntries(Tail(entries),
                 Append(qs, QuizQuestion(EntryId(q, qs), Strip(q.text),
                                         EntryType(q), EntryOptions(q))))

\* match.group(1) of a match of the joined pattern: the group of the first
\* alternative, None when another alternative matched
Group1(match) == IF match.alt = 1 THEN match.text ELSE None

\* the loop over re.finditer('|'.join(question_patterns), content); i counts
\* the matches from 0.  None.strip() raises AttributeError.
RECURSIVE ParseContent(_, _, _)
ParseContent(matches, i, st) ==
    IF matches = <<>> \/ st.raised THEN st
    ELSE LET g == Group1(Head(matches))
         IN  IF g = None
             THEN [st EXCEPT !.raised = TRUE]
             ELSE LET question_text == Strip(g)
                      added == IF question_text # <<>>
                               THEN Append(st.questions,
                                        QuizQuestion(QId(i + 1), question_text,
                                            DetermineQuestionType(question_text),
                                            "None"))
                               ELSE st.questions
                  IN  ParseContent(Tail(matches), i + 1,
                                   [st EXCEPT !.questions = added])

\* QuizSolver._parse_quiz_data: [raised, questions]
ParseQuizData(qd) ==
    IF ~qd.hasQuestions
    THEN [raised |-> FALSE, questions |-> <<>>]
    ELSE ParseContent(qd.content, 0,
             [raised |-> FALSE, questions |-> ParseEntries(qd.questions, <<>>)])

MaxEntries == 2
MaxMatches == 2

SeqsUpTo(S, n) == UNION {[1..k -> S] : k \in 0..n}

EntryIds == {None, <<"q", "1">>, <<"q", "2">>}
EntryTexts == {<<"A", "?">>, <<" ", "d", "a", "t", "a", " ">>}
MatchTexts == {<<" ">>, <<"F", "i", "l", "e", "?">>, <<" ", "B", "?">>}

\* the 'type' of an entry: missing, or the name of a heuristic of
\* browser._identify_questions
EntryTypes == {"", "q_prefix"}

Entries == [id : EntryIds, text : EntryTexts, type : EntryTypes,
            options : {"empty"}]
Matches == [alt : 1..3, text : MatchTexts]

QuizData ==
    [hasQuestions : BOOLEAN,
     questions : SeqsUpTo(Entries, MaxEntries),
     content : SeqsUpTo(Matches, MaxMatches)]

ParseIdle ==
    /\ quiz_data = [hasQuestions |-> FALSE, questions |-> <<>>, content |-> <<>>]
    /\ ps_pc = "idle"
    /\ questions = <<>>

ParseInit ==
    /\ quiz_data \in {qd \in QuizData : qd.hasQuestions \/ qd.questions = <<>>}
    /\ ps_pc = "new"
    /\ questions = <<>>

\* QuizSolver.__init__
QuizSolverInit ==
    /\ ps_pc = "new"
    /\ LET r == ParseQuizData(quiz_data)
       IN  /\ ps_pc' = IF r.raised THEN "raised" ELSE "parsed"
           /\ questions' = r.questions
    /\ UNCHANGED quiz_data

\* a QuizSolver built on its own
NewSolverAlone == QuizSolverInit /\ UNCHANGED <<runVars, retryVars, submitVars, helperVars>>

ParseNext == NewSolverAlone

\* ------------------------------- submit_quiz / process_quiz_submission

BROWSER_TIMEOUT == 30
REQUEST_TIMEOUT == 180
SubmitReserve == 10
SettleDelay == 2

\* the clock stops counting here
MaxClock == 200

\* how long one await may take
Durations == {0, 1, 9, 10, 160}

\* the methods class QuizSolver defines
QuizSolverMethods ==
    {"__init__", "_parse_quiz_data", "_determine_question_type", "solve_quiz",
     "_solve_question", "submit_answers", "solve_all", "generate_report"}

\* the value of QuizRequest.timeout sent by a client
RequestTimeouts == {BROWSER_TIMEOUT, 60}

\* what extract_quiz_data can return for the fetched page: one detected
\* question, and a page text with at most one match of the solver's patterns
RunQuizData ==
    {[hasQuestions |-> TRUE,
      questions |-> <<[id |-> None, text |-> <<"A", "?">>,
                      type |-> "question_mark", options |-> "empty"]>>,
      content |-> c] :
        c \in {<<>>} \cup {<<[alt |-> a, text |-> <<" ", "B", "?">>]>> : a \in 1..2}}

NoResult == [status |-> "none"]

\* time_remaining = lambda: (start_time + timedelta(seconds=timeout) - utcnow())
TimeRemaining(now) == timeout - now

\* the report without the clamp at 0
ReportedRemaining_NoClamp(now) == TimeRemaining(now)

\* "time_remaining": max(0, time_remaining())
ReportedRemaining(now) == Max(0, TimeRemaining(now))

RunIdle ==
    /\ pc = "off"
    /\ req = [secretOk |-> TRUE, timeout |-> BROWSER_TIMEOUT]
    /\ timeout = BROWSER_TIMEOUT
    /\ clock = 0
    /\ timerFired = FALSE
    /\ exc = "none"
    /\ failedAt = "none"
    /\ playwright = "none"
    /\ browser = "none"
    /\ retval = NoResult
    /\ result = NoResult
    /\ response = "pending"
    /\ submitCalls = 0
    /\ solveLeft = <<>>
    /\ failClock = 0

RunInit ==
    /\ pc = "request"
    /\ req \in [secretOk : BOOLEAN, timeout : RequestTimeouts]
    /\ timeout = BROWSER_TIMEOUT
    /\ clock = 0
    /\ timerFired = FALSE
    /\ exc = "none"
    /\ failedAt = "none"
    /\ playwright = "none"
    /\ browser = "none"
    /\ retval = NoResult
    /\ result = NoResult
    /\ response = "pending"
    /\ submitCalls = 0
    /\ solveLeft = <<>>
    /\ failClock = 0

\* an exception of class `kind` leaves statement `here` for handler `to`
Throw(kind, here, to) ==
    /\ exc' = kind
    /\ failedAt' = here
    /\ failClock' = clock'
    /\ pc' = to

\* asyncio.wait_for cancels the task at the suspend point it is waiting in
\* when REQUEST_TIMEOUT seconds have passed since the call
Interrupted(d) == ~timerFired /\ clock + d >= REQUEST_TIMEOUT

\* `await` of an operation that takes d seconds in statement `here`: the
\* task is cancelled there, or the operation raises, or it completes (Ok)
Await(here, d, to, Ok) ==
    IF Interrupted(d)
    THEN /\ clock' = REQUEST_TIMEOUT
         /\ timerFired' = TRUE
         /\ Throw("CancelledError", here, to)
         /\ UNCHANGED <<playwright, browser>>
    ELSE /\ clock' = Min(clock + d, MaxClock)
         /\ UNCHANGED timerFired
         /\ \/ Ok
            \/ /\ Throw("Exception", here, to)
               /\ UNCHANGED <<playwright, browser>>

Goto(next) == pc' = next /\ UNCHANGED <<exc, failedAt, failClock>>

\* submit_quiz up to the call of process_quiz_submission(email, url): the
\* secret check, then the call with the default timeout
SubmitQuiz ==
    /\ UNCHANGED <<retryVars, submitVars, helperVars>>
    /\ pc = "request"
    /\ IF req.secretOk
       THEN /\ pc' = "ctor"
            /\ timeout' = BROWSER_TIMEOUT
            /\ UNCHANGED response
       ELSE /\ pc' = "responded"
            /\ response' = "403"
            /\ UNCHANGED timeout
    /\ UNCHANGED <<req, clock, timerFired, exc, failedAt, playwright, browser,
                   retval, result, submitCalls, solveLeft, failClock>>
    /\ UNCHANGED parseVars

\* BrowserManager.__init__: magic.Magic(mime=True) may raise
BrowserManagerInit ==
    /\ UNCHANGED <<retryVars, submitVars, helperVars>>
    /\ pc = "ctor"
    /\ UNCHANGED clock
    /\ \/ Goto("pw_start")
       \/ Throw("Exception", "ctor", "unwound")
    /\ UNCHANGED <<req, timeout, timerFired, playwright, browser, retval,
                   result, response, submitCalls, solveLeft>>
    /\ UNCHANGED parseVars

\* __aenter__: self.playwright = await async_playwright().start()
AenterStart ==
    /\ UNCHANGED <<retryVars, submitVars, helperVars>>
    /\ pc = "pw_start"
    /\ \E d \in Durations :
          Await("pw_start", d, "unwound",
                Goto("launch") /\ playwright' = "running" /\ UNCHANGED browser)
    /\ UNCHANGED <<req, timeout, retval, result, response, submitCalls, solveLeft>>
    /\ UNCHANGED parseVars

\* __aenter__: self.browser = await self.playwright.chromium.launch(...)
AenterLaunch ==
    /\ UNCHANGED <<retryVars, submitVars, helperVars>>
    /\ pc = "launch"
    /\ \E d \in Durations :
          Await("launch", d, "unwound",
                Goto("new_context") /\ browser' = "open" /\ UNCHANGED playwright)
    /\ UNCHANGED <<req, timeout, retval, result, response, submitCalls, solveLeft>>
    /\ UNCHANGED parseVars

\* __aenter__ after the launch: new_context, add_init_script, new_page
AenterSession ==
    /\ UNCHANGED <<retryVars, submitVars, helperVars>>
    /\ pc \in {"new_context", "init_script", "new_page"}
    /\ LET next == CASE pc = "new_context" -> "init_script"
                     [] pc = "init_script" -> "new_page"
                     [] pc = "new_page" -> "goto"
       IN  \E d \in Durations :
              Await(pc, d, "unwound", Goto(next) /\ UNCHANGED <<playwright, browser>>)
    /\ UNCHANGED <<req, timeout, retval, result, response, submitCalls, solveLeft>>
    /\ UNCHANGED parseVars

\* extract_quiz_data: page.goto, asyncio.sleep(2), page.content, and the
\* page.evaluate whose value becomes quiz_data
ExtractQuizData ==
    /\ UNCHANGED <<retryVars, submitVars, helperVars>>
    /\ pc \in {"goto", "settle", "content", "evaluate"}
    /\ \/ /\ pc = "goto"
          /\ \E d \in Durations :
                Await("goto", d, "aexit_close",
                      Goto("settle") /\ UNCHANGED <<playwright, browser>>)
          /\ UNCHANGED parseVars
       \/ /\ pc = "settle"
          /\ IF Interrupted(SettleDelay)
             THEN /\ clock' = REQUEST_TIMEOUT
                  /\ timerFired' = TRUE
                  /\ Throw("CancelledError", "settle", "aexit_close")
             ELSE /\ clock' = Min(clock + SettleDelay, MaxClock)
                  /\ Goto("content")
                  /\ UNCHANGED timerFired
          /\ UNCHANGED <<playwright, browser>>
          /\ UNCHANGED parseVars
       \/ /\ pc = "content"
          /\ \E d \in Durations :
                Await("content", d, "aexit_close",
                      Goto("evaluate") /\ UNCHANGED <<playwright, browser>>)
          /\ UNCHANGED parseVars
       \/ /\ pc = "evaluate"
          /\ \E d \in Durations, qd \in RunQuizData :
                /\ Await("evaluate", d, "aexit_close",
                         Goto("parse") /\ UNCHANGED <<playwright, browser>>)
                /\ IF pc' = "parse"
                   THEN quiz_data' = qd /\ ps_pc' = "new"
                   ELSE UNCHANGED <<quiz_data, ps_pc>>
          /\ UNCHANGED questions
    /\ UNCHANGED <<req, timeout, retval, result, response, submitCalls, solveLeft>>

\* solver = QuizSolver(quiz_data)
NewQuizSolver ==
    /\ UNCHANGED <<retryVars, submitVars, helperVars>>
    /\ pc = "parse"
    /\ QuizSolverInit
    /\ UNCHANGED clock
    /\ IF ps_pc' = "raised"
       THEN Throw("Exception", "parse", "aexit_close")
       ELSE Goto("solve")
    /\ UNCHANGED <<req, timeout, timerFired, playwright, browser, retval, result,
                   response, submitCalls, solveLeft>>

\* results = await solver.solve(), the check of the time left, the call of
\* solver.submit_answers and the return statement.  Looking up a method
\* the class does not define raises AttributeError.
SolveAndSubmit ==
    /\ UNCHANGED <<retryVars, submitVars, helperVars>>
    /\ pc = "solve"
    /\ IF "solve" \in QuizSolverMethods
       THEN \E d \in Durations :
               IF Interrupted(d)
               THEN /\ clock' = REQUEST_TIMEOUT
                    /\ timerFired' = TRUE
                    /\ Throw("CancelledError", "solve", "aexit_close")
                    /\ solveLeft' = <<TimeRemaining(clock')>>
                    /\ UNCHANGED <<retval, submitCalls>>
               ELSE /\ clock' = Min(clock + d, MaxClock)
                    /\ UNCHANGED timerFired
                    /\ solveLeft' = <<TimeRemaining(clock')>>
                    /\ Goto("aexit_close")
                    /\ LET enough == TimeRemaining(clock') > SubmitReserve
                       IN  /\ submitCalls' = IF enough THEN submitCalls + 1
                                             ELSE submitCalls
                           /\ retval' =
                                [status |-> "success",
                                 submission |-> IF enough THEN "submitted"
                                                ELSE "Timeout before submission",
                                 time_remaining |-> ReportedRemaining(clock')]
       ELSE /\ UNCHANGED <<clock, timerFired, retval, submitCalls>>
            /\ Throw("Exception", "solve", "aexit_close")
            /\ solveLeft' = <<TimeRemaining(clock)>>
    /\ UNCHANGED <<req, timeout, playwright, browser, result, response>>
    /\ UNCHANGED parseVars

\* __aexit__: if self.browser: await self.browser.close()
\*            if self.playwright: await self.playwright.stop()
\* An exception raised here replaces the one in flight.
Aexit ==
    /\ UNCHANGED <<retryVars, submitVars, helperVars>>
    /\ pc \in {"aexit_close", "aexit_stop"}
    /\ \/ /\ pc = "aexit_close"
          /\ IF browser # "none"
             THEN \E d \in Durations :
                     Await("aexit_close", d, "unwound",
                           /\ Goto("aexit_stop")
                           /\ browser' = "closed"
                           /\ UNCHANGED playwright)
             ELSE /\ Goto("aexit_stop")
                  /\ UNCHANGED <<clock, timerFired, playwright, browser>>
       \/ /\ pc = "aexit_stop"
          /\ IF playwright # "none"
             THEN \E d \in Durations :
                     Await("aexit_stop", d, "unwound",
                           /\ Goto("unwound")
                           /\ playwright' = "stopped"
                           /\ UNCHANGED browser)
             ELSE /\ Goto("unwound")
                  /\ UNCHANGED <<clock, timerFired, playwright, browser>>
    /\ UNCHANGED <<req, timeout, retval, result, response, submitCalls, solveLeft>>
    /\ UNCHANGED parseVars

\* the end of the try statement of process_quiz_submission: the pending
\* return value is returned, `except Exception` turns an exception into an
\* error result, and CancelledError (a BaseException) passes through
EndOfTry ==
    /\ UNCHANGED <<retryVars, submitVars, helperVars>>
    /\ pc = "unwound"
    /\ CASE exc = "none" ->
              /\ result' = retval
              /\ pc' = "task_returned"
         [] exc = "Exception" ->
              /\ result' = [status |-> "error",
                            time_remaining |-> ReportedRemaining(clock)]
              /\ pc' = "task_returned"
         [] exc = "CancelledError" ->
              /\ UNCHANGED result
              /\ pc' = "task_cancelled"
    /\ UNCHANGED <<req, timeout, clock, timerFired, exc, failedAt, failClock,
                   playwright, browser, retval, response, submitCalls, solveLeft>>
    /\ UNCHANGED parseVars

\* submit_quiz after asyncio.wait_for: the result is returned, TimeoutError
\* becomes 408 and any other exception 500.  A task that was cancelled and
\* still returned a value: wait_for raises TimeoutError (Python <= 3.11) or
\* returns the value (3.12).
SubmitQuizFinish ==
    /\ UNCHANGED <<retryVars, submitVars, helperVars>>
    /\ pc \in {"task_returned", "task_cancelled", "task_raised"}
    /\ pc' = "responded"
    /\ response' \in CASE pc = "task_cancelled" -> {"408"}
                       [] pc = "task_raised" -> {"500"}
                       [] OTHER -> IF timerFired THEN {"200", "408"} ELSE {"200"}
    /\ UNCHANGED <<req, timeout, clock, timerFired, exc, failedAt, failClock,
                   playwright, browser, retval, result, submitCalls, solveLeft>>
    /\ UNCHANGED parseVars

RunNext ==
    \/ SubmitQuiz
    \/ BrowserManagerInit
    \/ AenterStart
    \/ AenterLaunch
    \/ AenterSession
    \/ ExtractQuizData
    \/ NewQuizSolver
    \/ SolveAndSubmit
    \/ Aexit
    \/ EndOfTry
    \/ SubmitQuizFinish

\* ------------------------------------ BrowserManager.submit_quiz_answers

\* the largest max_retries argument tried
MaxRetries == 3

\* what one attempt meets: the statement that raises, whether the page has
\* a submit control, and whether its text shows a success keyword afterwards
AttemptEnvs ==
    {e \in [fail : {"none", "goto", "fill", "click", "evaluate"},
            button : BOOLEAN,
            signal : BOOLEAN] :
        /\ e.fail = "click" => e.button
        /\ e.signal => e.fail = "none"}

RetryIdle ==
    /\ sq_pc = "off"
    /\ max_retries = 0
    /\ retry_count = 0
    /\ last_error = "None"
    /\ attempts = <<>>
    /\ sleeps = <<>>
    /\ sq_result = NoResult

\* retry_count = 0; last_error = None
RetryInit ==
    /\ sq_pc = "loop"
    /\ max_retries \in 0..MaxRetries
    /\ retry_count = 0
    /\ last_error = "None"
    /\ attempts = <<>>
    /\ sleeps = <<>>
    /\ sq_result = NoResult

\* while retry_count < max_retries
LoopContinues(count, limit) == count < limit

\* the loop going on after a success
ReturnsOn_Never(success) == FALSE

\* if success: return {...}
ReturnsOn(success) == success

\* a sleep after every failure, the last one too
BackoffNeeded_Always(count, limit) == TRUE

\* if retry_count < max_retries: await asyncio.sleep(...)
BackoffNeeded(count, limit) == count < limit

RECURSIVE Pow2(_)
Pow2(n) == IF n = 0 THEN 1 ELSE 2 * Pow2(n - 1)

\* a backoff that starts at one second
BackoffSeconds_FromOne(count) == Pow2(count - 1)

\* 2 ** retry_count
BackoffSeconds(count) == Pow2(count)

\* str(e), or the message set when no success keyword was found
AttemptError(e) ==
    IF e.fail = "none" THEN "Unknown submission error" ELSE "error in " \o e.fail

\* one pass of the loop body: goto, the fills, the click of the submit
\* control if there is one, the keyword check, then retry_count += 1
SubmitAttempt ==
    /\ UNCHANGED <<parseVars, runVars, submitVars, helperVars>>
    /\ sq_pc = "loop"
    /\ LoopContinues(retry_count, max_retries)
    /\ \E e \in AttemptEnvs :
          LET clicked == e.button /\ e.fail \notin {"goto", "fill"}
              loaded == clicked /\ e.fail # "click"
              success == e.fail = "none" /\ e.signal
          IN  /\ attempts' = Append(attempts,
                     [clicked |-> clicked, loaded |-> loaded, signal |-> e.signal,
                      error |-> IF success THEN "None" ELSE AttemptError(e)])
              /\ IF ReturnsOn(success)
                 THEN /\ sq_result' = [status |-> "success"]
                      /\ sq_pc' = "returned"
                      /\ UNCHANGED <<retry_count, last_error>>
                 ELSE /\ last_error' = AttemptError(e)
                      /\ retry_count' = retry_count + 1
                      /\ sq_pc' = IF BackoffNeeded(retry_count', max_retries)
                                  THEN "backoff" ELSE "loop"
                      /\ UNCHANGED sq_result
    /\ UNCHANGED <<max_retries, sleeps>>

\* await asyncio.sleep(2 ** retry_count)
Backoff ==
    /\ UNCHANGED <<parseVars, runVars, submitVars, helperVars>>
    /\ sq_pc = "backoff"
    /\ sleeps' = Append(sleeps, BackoffSeconds(retry_count))
    /\ sq_pc' = "loop"
    /\ UNCHANGED <<max_retries, retry_count, last_error, attempts, sq_result>>

\* the return after the loop
GiveUp ==
    /\ UNCHANGED <<parseVars, runVars, submitVars, helperVars>>
    /\ sq_pc = "loop"
    /\ ~LoopContinues(retry_count, max_retries)
    /\ sq_result' = [status |-> "error", error |-> last_error]
    /\ sq_pc' = "returned"
    /\ UNCHANGED <<max_retries, retry_count, last_error, attempts, sleeps>>

RetryNext == SubmitAttempt \/ Backoff \/ GiveUp

\* ------------------------------------- BrowserManager.submit_quiz_answer

\* the largest number of form elements on a page
MaxForms == 2

ResponseLimit == 1000

\* lengths of the page body after a form submit, or of the API's answer
BodyLens == {0, 1000, 1001}

Statuses == {199, 200, 299, 300}

Pages == [forms : 0..MaxForms, bodyLen : BodyLens, status : Statuses,
          json : BOOLEAN]

SubmitIdle ==
    /\ sa_pc = "off"
    /\ sa_page = [forms |-> 0, bodyLen |-> 0, status |-> 200, json |-> TRUE]
    /\ sa_forms = <<>>
    /\ sa_invoked = <<>>
    /\ sa_raisedIn = "none"
    /\ sa_result = NoResult

SubmitInit ==
    /\ sa_pc = "call"
    /\ sa_page \in Pages
    /\ sa_forms = <<>>
    /\ sa_invoked = <<>>
    /\ sa_raisedIn = "none"
    /\ sa_result = NoResult

\* await self.page.goto(url, wait_until='domcontentloaded')
Navigate ==
    /\ UNCHANGED <<parseVars, runVars, retryVars, helperVars>>
    /\ sa_pc = "call"
    /\ \/ sa_pc' = "navigated" /\ UNCHANGED sa_raisedIn
       \/ sa_pc' = "raised" /\ sa_raisedIn' = "goto"
    /\ UNCHANGED <<sa_page, sa_forms, sa_invoked, sa_result>>

\* forms = await self.page.query_selector_all('form')
QueryForms ==
    /\ UNCHANGED <<parseVars, runVars, retryVars, helperVars>>
    /\ sa_pc = "navigated"
    /\ \/ /\ sa_pc' = "queried"
          /\ sa_forms' = [i \in 1..sa_page.forms |-> i]
          /\ UNCHANGED sa_raisedIn
       \/ /\ sa_pc' = "raised"
          /\ sa_raisedIn' = "query"
          /\ UNCHANGED sa_forms
    /\ UNCHANGED <<sa_page, sa_invoked, sa_result>>

\* the form path taken only for a second form
DeliveryPath_NeedsTwo(forms) == IF Len(forms) > 1 THEN "form" ELSE "api"

\* if forms: ... else: ...
DeliveryPath(forms) == IF forms # <<>> THEN "form" ELSE "api"

\* 'response': content[:1000]
FormResponseLen(len) == Min(len, ResponseLimit)

\* _submit_via_form's result
SubmitViaForm(page) ==
    [success |-> TRUE, responseLen |-> FormResponseLen(page.bodyLen)]

\* _submit_via_api's result: the parsed JSON, or the whole text
SubmitViaApi(page) ==
    [success |-> 200 <= page.status /\ page.status < 300,
     status_code |-> page.status,
     responseLen |-> page.bodyLen]

\* the call of _submit_via_form(forms[0], ...) or _submit_via_api(url, ...)
Deliver ==
    /\ UNCHANGED <<parseVars, runVars, retryVars, helperVars>>
    /\ sa_pc = "queried"
    /\ LET path == DeliveryPath(sa_forms)
       IN  /\ sa_invoked' = Append(sa_invoked, path)
           /\ \/ /\ sa_pc' = "returned"
                 /\ sa_result' = IF path = "form" THEN SubmitViaForm(sa_page)
                                 ELSE SubmitViaApi(sa_page)
                 /\ UNCHANGED sa_raisedIn
              \/ /\ sa_pc' = "raised"
                 /\ sa_raisedIn' = path
                 /\ UNCHANGED sa_result
    /\ UNCHANGED <<sa_page, sa_forms>>

SubmitNext == Navigate \/ QueryForms \/ Deliver

\* -------------------------------- QuizSolver.solve_quiz / QuizSolver.solve_all

MaxSolveQuestions == 2

\* the entries behind the questions of the solver under study
SolveEntries ==
    [id : {None, <<"q", "2">>}, text : {<<"A", "?">>},
     type : {"", "boolean", "number", "multiple_choice"},
     options : {"empty", "list", "mapping"}]

\* random.choice(question.options): indexing a mapping by position raises
ChooseOption(options) ==
    IF options = "mapping"
    THEN {[raised |-> TRUE, error |-> "KeyError", answer |-> None]}
    ELSE {[raised |-> FALSE, error |-> "", answer |-> <<"option">>]}

\* QuizSolver._solve_question: the outcomes of one call
SolveQuestion(question) ==
    CASE question.question_type = "boolean" ->
             {[raised |-> FALSE, error |-> "", answer |-> <<b>>] :
                  b \in {"True", "False"}}
      [] question.question_type = "number" ->
             {[raised |-> FALSE, error |-> "", answer |-> <<n>>] :
                  n \in {"1", "100"}}
      [] question.question_type = "multiple_choice" ->
             IF question.options \in {"list", "mapping"}
             THEN ChooseOption(question.options)
             ELSE {[raised |-> FALSE, error |-> "", answer |-> <<"A">>]}
      [] OTHER ->
             {[raised |-> FALSE, error |-> "",
               answer |-> <<"Sample answer for ">> \o question.question_id]}

\* self.<name>(...): AttributeError when the class defines no such method
HasMethod(name) == name \in QuizSolverMethods

\* the body of the try statement of solve_quiz for one question, given the
\* outcome of _solve_question
TryAnswer(question, o) ==
    IF o.raised THEN [raised |-> TRUE, error |-> o.error]
    ELSE IF ~HasMethod("_calculate_confidence")
    THEN [raised |-> TRUE, error |-> "AttributeError"]
    ELSE [raised |-> FALSE, error |-> "",
          entry |-> [question_id |-> question.question_id,
                     question_type |-> question.question_type,
                     answer |-> o.answer, error |-> "",
                     confidence |-> "computed"]]

Catches_Nothing(error) == FALSE

\* `except Exception`: the errors a question can raise are all Exceptions
Catches(error) == error \in {"KeyError", "AttributeError"}

\* the entry appended by the except branch of solve_quiz
ErrorEntry(question, error) ==
    [question_id |-> question.question_id,
     question_type |-> question.question_type,
     answer |-> None, error |-> error, confidence |-> "0.0"]

\* the attributes of a QuizQuestion
QuizQuestionAttributes ==
    {"question_id", "question_text", "question_type", "options", "answer"}

\* getattr(question, 'id', f"q{len(answers) + 1}")
AnswerId(question, answers) ==
    IF "id" \in QuizQuestionAttributes THEN question.question_id
    ELSE QId(Len(answers) + 1)

SolveIdle ==
    /\ sv_pc = "off"
    /\ sv_method = "none"
    /\ sv_questions = <<>>
    /\ sv_i = 1
    /\ sv_out = <<>>

SolveInit ==
    /\ sv_pc = "call"
    /\ sv_method \in {"solve_quiz", "solve_all"}
    /\ sv_questions \in
           {ParseEntries(es, <<>>) : es \in SeqsUpTo(SolveEntries, MaxSolveQuestions)}
    /\ sv_i = 1
    /\ sv_out = <<>>

othersOfSolve == <<pipelineVars, fileVars, detectVars, sessionVars, formVars,
                   rateVars, cacheVars, downloadVars>>

\* solve_quiz: `results = []` and the start of the loop
SolveQuizCall ==
    /\ sv_pc = "call" /\ sv_method = "solve_quiz"
    /\ sv_pc' = "loop"
    /\ UNCHANGED <<sv_method, sv_questions, sv_i, sv_out, othersOfSolve>>

\* solve_quiz: one iteration of the loop
SolveQuizStep ==
    /\ sv_pc = "loop" /\ sv_method = "solve_quiz"
    /\ sv_i <= Len(sv_questions)
    /\ \E o \in SolveQuestion(sv_questions[sv_i]) :
           LET question == sv_questions[sv_i]
               t == TryAnswer(question, o)
           IN  IF ~t.raised
               THEN /\ sv_out' = Append(sv_out, t.entry)
                    /\ sv_i' = sv_i + 1
                    /\ sv_pc' = "loop"
               ELSE IF Catches(t.error)
               THEN /\ sv_out' = Append(sv_out, ErrorEntry(question, t.error))
                    /\ sv_i' = sv_i + 1
                    /\ sv_pc' = "loop"
               ELSE /\ sv_pc' = "raised"
                    /\ UNCHANGED <<sv_out, sv_i>>
    /\ UNCHANGED <<sv_method, sv_questions, othersOfSolve>>

\* solve_quiz: `return results`
SolveQuizReturn ==
    /\ sv_pc = "loop" /\ sv_method = "solve_quiz"
    /\ sv_i > Len(sv_questions)
    /\ sv_pc' = "returned"
    /\ UNCHANGED <<sv_method, sv_questions, sv_i, sv_out, othersOfSolve>>

\* solve_all: the guard on self.questions and `answers = []`
SolveAllCall ==
    /\ sv_pc = "call" /\ sv_method = "solve_all"
    /\ sv_pc' = IF sv_questions = <<>> THEN "returned" ELSE "loop"
    /\ UNCHANGED <<sv_method, sv_questions, sv_i, sv_out, othersOfSolve>>

\* solve_all: one iteration of the loop, no try statement around it
SolveAllStep ==
    /\ sv_pc = "loop" /\ sv_method = "solve_all"
    /\ sv_i <= Len(sv_questions)
    /\ \E o \in SolveQuestion(sv_questions[sv_i]) :
           IF o.raised
           THEN /\ sv_pc' = "raised"
                /\ UNCHANGED <<sv_out, sv_i>>
           ELSE /\ sv_out' = Append(sv_out,
                        [question_id |-> AnswerId(sv_questions[sv_i], sv_out),
                         answer |-> o.answer])
                /\ sv_i' = sv_i + 1
                /\ sv_pc' = "loop"
    /\ UNCHANGED <<sv_method, sv_questions, othersOfSolve>>

\* solve_all: `return answers`
SolveAllReturn ==
    /\ sv_pc = "loop" /\ sv_method = "solve_all"
    /\ sv_i > Len(sv_questions)
    /\ sv_pc' = "returned"
    /\ UNCHANGED <<sv_method, sv_questions, sv_i, sv_out, othersOfSolve>>

SolveNext ==
    \/ SolveQuizCall
    \/ SolveQuizStep
    \/ SolveQuizReturn
    \/ SolveAllCall
    \/ SolveAllStep
    \/ SolveAllReturn

\* --------------------------------- BrowserManager.extract_text_from_file
\* (the second definition of the class, the one in effect).  A media type is
\* the sequence of the pieces of its text, so that `in` is Contains.

\* SUPPORTED_FILE_TYPES
SUPPORTED_FILE_TYPES ==
    {<<<<"application", "/", "pdf">>, "pdf">>,
     <<<<"application", "/", "vnd.openxmlformats-officedocument.",
         "wordprocessingml", ".document">>, "docx">>,
     <<<<"application", "/", "vnd.openxmlformats-officedocument.",
         "presentationml", ".presentation">>, "pptx">>,
     <<<<"application", "/", "vnd.openxmlformats-officedocument.",
         "spreadsheetml", ".sheet">>, "xlsx">>,
     <<<<"application", "/", "msword">>, "doc">>,
     <<<<"application", "/", "vnd.ms-", "powerpoint">>, "ppt">>,
     <<<<"application", "/", "vnd.ms-", "excel">>, "xls">>,
     <<<<"text", "/", "plain">>, "txt">>,
     <<<<"text", "/", "csv">>, "csv">>,
     <<<<"image", "/", "png">>, "png">>,
     <<<<"image", "/", "jpeg">>, "jpg">>,
     <<<<"image", "/", "gif">>, "gif">>,
     <<<<"image", "/", "tiff">>, "tiff">>,
     <<<<"image", "/", "bmp">>, "bmp">>}

\* OCR_SUPPORTED
OCR_SUPPORTED == {"png", "jpg", "jpeg", "tiff", "bmp"}

\* str.lower() on the pieces of a media type
LowerPiece(w) ==
    CASE w = "TEXT" -> "text"
      [] w = "PLAIN" -> "plain"
      [] OTHER -> w

LowerType(ct) == [i \in 1..Len(ct) |-> LowerPiece(ct[i])]

\* _get_file_extension(file_path, content_type) with a content type given
GetFileExtension(content_type) ==
    LET hits == {e \in SUPPORTED_FILE_TYPES : e[1] = LowerType(content_type)}
    IN  IF hits = {} THEN "" ELSE (CHOOSE e \in hits : TRUE)[2]

\* _is_ocr_supported
IsOcrSupported(file_extension) == file_extension \in OCR_SUPPORTED

\* the branch taken by the if/elif chain of the try statement
Dispatch(content_type) ==
    LET low == LowerType(content_type)
    IN  CASE Contains(low, <<"pdf">>) -> "pdf"
          [] Contains(low, <<"wordprocessingml">>) -> "docx"
          [] Contains(low, <<"presentationml">>) -> "pptx"
          [] Contains(low, <<"spreadsheetml">>) \/ Contains(low, <<"excel">>)
                 -> "xlsx"
          [] Contains(content_type, <<"text", "/">>) -> "read_text"
          [] \E img \in {<<"image", "/", "png">>, <<"image", "/", "jpeg">>,
                         <<"image", "/", "tiff">>, <<"image", "/", "bmp">>} :
                 Contains(low, img) -> "ocr"
          [] OTHER -> "unsupported"

\* the media types met in the runs
MediaTypes ==
    {<<"application", "/", "pdf">>,
     <<"application", "/", "vnd.ms-", "excel">>,
     <<"text", "/", "plain">>,
     <<"TEXT", "/", "PLAIN">>,
     <<"image", "/", "png">>,
     <<"image", "/", "gif">>,
     <<"application", "/", "zip">>}

\* a file on disk and the environment of one call:
\*   hint       the content_type argument, None when not given
\*   sniff      what self._magic.from_file answers, <<"raise">> when it raises
\*   parserOk   the format parser (or read_text) succeeds on the file
\*   ocrLibs    Pillow and pytesseract are importable
\*   ocrOk      pytesseract reads the image without an error
ExtractCalls ==
    [exists : BOOLEAN, hint : MediaTypes \cup {None},
     sniff : {<<"raise">>, <<"image", "/", "png">>, <<"application", "/", "zip">>},
     parserOk : BOOLEAN, ocrLibs : BOOLEAN, ocrOk : BOOLEAN]

\* _extract_text_with_ocr: ImportError without the libraries; any other
\* failure is caught inside and gives ""
ExtractTextWithOcr(call) ==
    IF ~call.ocrLibs THEN [raised |-> TRUE, error |-> "ImportError", text |-> ""]
    ELSE [raised |-> FALSE, error |-> "",
          text |-> IF call.ocrOk THEN "ocr text" ELSE ""]

\* the extraction routine of a branch of the if/elif chain
PrimaryExtract(branch, call) ==
    CASE branch = "ocr" -> ExtractTextWithOcr(call)
      [] branch = "unsupported" -> [raised |-> FALSE, error |-> "", text |-> ""]
      [] OTHER ->
             IF call.parserOk
             THEN [raised |-> FALSE, error |-> "", text |-> "parsed text"]
             ELSE [raised |-> TRUE, error |-> "parser error", text |-> ""]

\* the `result` dictionary as initialised: keys lists the keys present
InitialResult(content_type, file_extension) ==
    [keys |-> {"text", "metadata", "content_type", "file_size"},
     text |-> "", error |-> "", ocr_error |-> "",
     content_type |-> content_type,
     metadata |-> [keys |-> {"file_name", "file_size", "content_type",
                             "file_extension", "processing_time"},
                   content_type |-> content_type,
                   file_extension |-> file_extension]]

FileIdle ==
    /\ fx_pc = "off"
    /\ fx_call = [exists |-> FALSE, hint |-> None, sniff |-> <<"raise">>,
                  parserOk |-> FALSE, ocrLibs |-> FALSE, ocrOk |-> FALSE]
    /\ fx_type = None
    /\ fx_result = NoResult
    /\ fx_routines = <<>>
    /\ fx_raised = "none"

FileInit ==
    /\ fx_pc = "call"
    /\ fx_call \in ExtractCalls
    /\ fx_type = None
    /\ fx_result = NoResult
    /\ fx_routines = <<>>
    /\ fx_raised = "none"

othersOfFile ==
    <<pipelineVars, solveVars, detectVars, sessionVars, formVars, rateVars,
      cacheVars, downloadVars>>

\* `if not file_path.exists(): raise FileNotFoundError`
CheckFileExists ==
    /\ fx_pc = "call"
    /\ IF fx_call.exists
       THEN fx_pc' = "exists" /\ UNCHANGED fx_raised
       ELSE fx_pc' = "raised" /\ fx_raised' = "FileNotFoundError"
    /\ UNCHANGED <<fx_call, fx_type, fx_result, fx_routines, othersOfFile>>

\* `content_type = content_type or self._magic.from_file(...)`, outside the
\* try statement, then the extension and the initial result
ResolveContentType ==
    /\ fx_pc = "exists"
    /\ LET content_type == IF fx_call.hint # None THEN fx_call.hint
                           ELSE fx_call.sniff
       IN  IF content_type = <<"raise">>
           THEN /\ fx_pc' = "raised"
                /\ fx_raised' = "MagicException"
                /\ UNCHANGED <<fx_type, fx_result>>
           ELSE /\ fx_pc' = "typed"
                /\ fx_type' = content_type
                /\ fx_result' = InitialResult(content_type,
                                              GetFileExtension(content_type))
                /\ UNCHANGED fx_raised
    /\ UNCHANGED <<fx_call, fx_routines, othersOfFile>>

\* the try statement: the branch of the media type, and on an exception the
\* except branch with its OCR fallback; then `return result`
ExtractByType ==
    /\ fx_pc = "typed"
    /\ LET branch == Dispatch(fx_type)
           first == PrimaryExtract(branch, fx_call)
           file_extension == fx_result.metadata.file_extension
           again == ExtractTextWithOcr(fx_call)
           failed == [fx_result EXCEPT !.keys = @ \cup {"error"},
                                       !.error = first.error]
       IN  IF ~first.raised
           THEN /\ fx_result' = [fx_result EXCEPT !.text = first.text]
                /\ fx_routines' = IF branch = "unsupported" THEN <<>>
                                  ELSE <<[phase |-> "primary", routine |-> branch]>>
           ELSE IF ~IsOcrSupported(file_extension)
           THEN /\ fx_result' = failed
                /\ fx_routines' = <<[phase |-> "primary", routine |-> branch]>>
           ELSE /\ fx_routines' = <<[phase |-> "primary", routine |-> branch],
                                    [phase |-> "fallback", routine |-> "ocr"]>>
                /\ fx_result' =
                       IF again.raised
                       THEN [failed EXCEPT !.keys = @ \cup {"ocr_error"},
                                           !.ocr_error = again.error]
                       ELSE [failed EXCEPT !.text = again.text,
                                           !.metadata.keys = @ \cup {"ocr_used"}]
    /\ fx_pc' = "returned"
    /\ UNCHANGED <<fx_call, fx_type, fx_raised, othersOfFile>>

FileNext == CheckFileExists \/ ResolveContentType \/ ExtractByType

\* ------------------------------------ BrowserManager._identify_questions
\* The three patterns are matched as re.finditer matches them under
\* re.DOTALL | re.IGNORECASE; positions in a text count from 1 and Len + 1
\* is the end of the text.

MinQuestionLen == 5

Digits == {"0", "1", "2", "3", "4", "5", "6", "7", "8", "9"}
Letters ==
    {"a", "b", "c", "d", "e", "f", "g", "h", "i", "j", "k", "l", "m", "n",
     "o", "p", "q", "r", "s", "t", "u", "v", "w", "x", "y", "z",
     "A", "B", "C", "D", "E", "F", "G", "H", "I", "J", "K", "L", "M", "N",
     "O", "P", "Q", "R", "S", "T", "U", "V", "W", "X", "Y", "Z"}

\* \s* from position i: the position after the run of white space
RECURSIVE SkipSpace(_, _)
SkipSpace(s, i) ==
    IF i <= Len(s) /\ IsSpace(s[i]) THEN SkipSpace(s, i + 1) ELSE i

\* \d* from position i: the position after the run of digits
RECURSIVE SkipDigits(_, _)
SkipDigits(s, i) ==
    IF i <= Len(s) /\ s[i] \in Digits THEN SkipDigits(s, i + 1) ELSE i

\* s[i:j] of Python with i, j counted from 1: the characters i .. j-1
Slice(s, i, j) == SubSeq(s, i, j - 1)

\* (?:\n|^)\s* at position p: the position reached, 0 when it cannot match
LineStart(s, p) ==
    IF p <= Len(s) /\ s[p] = "\n" THEN SkipSpace(s, p + 1)
    ELSE IF p = 1 THEN SkipSpace(s, 1)
    ELSE 0

\* $ at position e: the end of the text, or just before a final newline
AtEnd(s, e) == e = Len(s) + 1 \/ (e = Len(s) /\ s[e] = "\n")

\* \d+[\.\)] at position j
Numbered(s, j) ==
    LET k == SkipDigits(s, j)
    IN  k > j /\ k <= Len(s) /\ s[k] \in {".", ")"}

\* (?=\n\s*\d+[\.\)]|\n\s*[A-Z]|\.\s*\n|$) at position e
AheadNumbering(s, e) ==
    \/ /\ e <= Len(s) /\ s[e] = "\n"
       /\ LET j == SkipSpace(s, e + 1)
          IN  Numbered(s, j) \/ (j <= Len(s) /\ s[j] \in Letters)
    \/ /\ e <= Len(s) /\ s[e] = "."
       /\ \E j \in (e + 1)..(SkipSpace(s, e + 1) - 1) : s[j] = "\n"
    \/ AtEnd(s, e)

\* (?=\n\s*Q\d|\n\s*[A-Z]|$) at position e
AheadQPrefix(s, e) ==
    \/ /\ e <= Len(s) /\ s[e] = "\n"
       /\ LET j == SkipSpace(s, e + 1)
          IN  j <= Len(s) /\ s[j] \in Letters
    \/ AtEnd(s, e)

\* (.*?) from position i before a lookahead: the first position where the
\* lookahead holds
LazyEnd(s, i, kind) ==
    LET ends == {e \in i..(Len(s) + 1) :
                    IF kind = "numbering" THEN AheadNumbering(s, e)
                    ELSE AheadQPrefix(s, e)}
    IN  CHOOSE e \in ends : \A f \in ends : e <= f

\* [^\n?]* from position i: the position after the run
RECURSIVE SkipPlain(_, _)
SkipPlain(s, i) ==
    IF i <= Len(s) /\ s[i] \notin {"\n", "?"} THEN SkipPlain(s, i + 1) ELSE i

NoMatch == [ok |-> FALSE, start |-> 0, end |-> 0, text |-> <<>>]

\* the match of the pattern `kind` that starts at position p, with the group
\* that _identify_questions reads: group 2 of the two-group patterns, group
\* 1 of the question-mark pattern
MatchAt(kind, s, p) ==
    LET q == LineStart(s, p)
    IN  IF q = 0 THEN NoMatch
        ELSE CASE kind = "numbering" ->
                 IF ~Numbered(s, q) THEN NoMatch
                 ELSE LET r == SkipSpace(s, SkipDigits(s, q) + 1)
                          e == LazyEnd(s, r, kind)
                      IN  [ok |-> TRUE, start |-> p, end |-> e,
                           text |-> Slice(s, r, e)]
               [] kind = "question_mark" ->
                 IF ~(q <= Len(s) /\ s[q] \in Letters) THEN NoMatch
                 ELSE LET k == SkipPlain(s, q + 1)
                      IN  IF /\ k > q + 1
                             /\ k <= Len(s) /\ s[k] = "?"
                             /\ (k = Len(s) \/ IsSpace(s[k + 1]))
                          THEN [ok |-> TRUE, start |-> p, end |-> k + 1,
                                text |-> Slice(s, q, k + 1)]
                          ELSE NoMatch
               [] OTHER ->
                 IF ~(/\ q + 1 <= Len(s) /\ s[q] \in {"Q", "q"}
                      /\ s[q + 1] \in Digits)
                 THEN NoMatch
                 ELSE LET d == SkipDigits(s, q + 1)
                          c == IF d <= Len(s) /\ s[d] \in {":", "."}
                               THEN d + 1 ELSE d
                          r == SkipSpace(s, c)
                          e == LazyEnd(s, r, kind)
                      IN  [ok |-> TRUE, start |-> p, end |-> e,
                           text |-> Slice(s, r, e)]

\* list(re.finditer(pattern, content, ...)) from position p on
RECURSIVE FindAll(_, _, _)
FindAll(kind, s, p) ==
    IF p > Len(s) + 1 THEN <<>>
    ELSE LET m == MatchAt(kind, s, p)
         IN  IF m.ok THEN <<m>> \o FindAll(kind, s, Max(m.end, p + 1))
             ELSE FindAll(kind, s, p + 1)

\* f"q{len(questions) + 1}"
NextId_ByMatchIndex(qs, i) == QId(i)

NextId(qs, i) == QId(Len(qs) + 1)

\* the inner loop of _identify_questions over the matches of one pattern;
\* i counts the matches from 1
RECURSIVE AddMatches(_, _, _, _)
AddMatches(kind, matches, i, qs) ==
    IF i > Len(matches) THEN qs
    ELSE LET question_text == Strip(matches[i].text)
         IN  AddMatches(kind, matches, i + 1,
                 IF Len(question_text) < MinQuestionLen THEN qs
                 ELSE Append(qs, [id |-> NextId(qs, i), type |-> kind,
                                  text |-> question_text,
                                  position |-> matches[i].start - 1]))

\* question_patterns, by name and in order
QuestionPatterns == <<"numbering", "question_mark", "q_prefix">>

\* the outer loop of _identify_questions from pattern k on
RECURSIVE IdentifyFrom(_, _, _)
IdentifyFrom(content, k, qs) ==
    IF k > Len(QuestionPatterns) THEN qs
    ELSE IdentifyFrom(content, k + 1,
             AddMatches(QuestionPatterns[k],
                        FindAll(QuestionPatterns[k], content, 1), 1, qs))

\* BrowserManager._identify_questions
IdentifyQuestions(content) == IdentifyFrom(content, 1, <<>>)

MaxChunks == 4

\* "Q1. What is 2+2?\nQ2. What is the capital of France?"
SampleQuiz ==
    <<"Q", "1", ".", " ", "W", "h", "a", "t", " ", "i", "s", " ", "2", "+",
      "2", "?", "\n",
      "Q", "2", ".", " ", "W", "h", "a", "t", " ", "i", "s", " ", "t", "h",
      "e", " ", "c", "a", "p", "i", "t", "a", "l", " ", "o", "f", " ", "F",
      "r", "a", "n", "c", "e", "?">>

\* the pieces the other page texts are made of
Chunks ==
    {<<"Q", "1", ".", " ">>, <<"2", ")", " ">>, <<"W", "h", "a", "t", "?">>,
     <<"a", "b", "\n">>, <<"\n">>}

RECURSIVE Concat(_)
Concat(ss) == IF ss = <<>> THEN <<>> ELSE Head(ss) \o Concat(Tail(ss))

\* quiz_data['content']: the visible text of the fetched page
PageTexts == {SampleQuiz} \cup {Concat(cs) : cs \in SeqsUpTo(Chunks, MaxChunks)}

\* the entries of quiz_data['questions'] as QuizSolver reads them: the keys
\* id, text and type are set, there is no 'options' key
DetectedEntries(qs) ==
    [i \in 1..Len(qs) |->
        [id |-> qs[i].id, text |-> qs[i].text, type |-> qs[i].type,
         options |-> "empty"]]

DetectIdle ==
    /\ dq_pc = "off"
    /\ dq_content = <<>>
    /\ dq_questions = <<>>

DetectInit ==
    /\ dq_pc = "page"
    /\ dq_content \in PageTexts
    /\ dq_questions = <<>>

\* extract_quiz_data: quiz_data['questions'] = self._identify_questions(quiz_data).
\* The page texts here hold no "<", so the tag patterns of the solver match
\* nothing in quiz_data['content'].
DetectQuestions ==
    /\ dq_pc = "page"
    /\ ps_pc = "idle"
    /\ dq_questions' = IdentifyQuestions(dq_content)
    /\ dq_pc' = "identified"
    /\ quiz_data' = [hasQuestions |-> TRUE,
                     questions |-> DetectedEntries(dq_questions'),
                     content |-> <<>>]
    /\ ps_pc' = "new"
    /\ UNCHANGED <<dq_content, questions, runVars, retryVars, submitVars,
                   solveVars, fileVars, sessionVars, formVars, rateVars,
                   cacheVars, downloadVars>>

DetectNext == DetectQuestions \/ NewSolverAlone

\* ----------------------- concurrent requests and their BrowserManager sessions
\* Each handler runs `async with BrowserManager(...) as browser:` and awaits
\* page operations on `browser`; the event loop may switch to another request
\* at every await.

MaxRequests == 2

Requests == 1..MaxRequests

\* the handlers that open a browser session
Handlers == {"process_quiz", "submit_answer", "process_quiz_submission"}

\* the awaited page operations of the body of the `async with`, in order
PageOps(handler) ==
    IF handler = "submit_answer"
    THEN <<"goto", "query_selector_all", "submit">>
    ELSE <<"goto", "content", "evaluate">>

\* the handlers of app.py, which check the rate limit before the secret
RateLimited == {"process_quiz", "submit_answer"}

RequestInputs == [rate_ok : BOOLEAN, secret_ok : BOOLEAN]

Admission_RateOnly(handler, in) ==
    IF handler \in RateLimited /\ ~in.rate_ok THEN 429 ELSE 200

\* The head of each handler, up to its first await.  process_quiz and
\* submit_answer: `if not check_rate_limit(client_ip)` raises 429, then
\* `if not verify_secret(...)` raises 403.  submit_quiz of main.py, which calls
\* process_quiz_submission: `if request.secret != settings.QUIZ_SECRET`
\* raises 403.  200 stands for going on into the try block.
Admission(handler, in) ==
    IF handler \in RateLimited /\ ~in.rate_ok THEN 429
    ELSE IF ~in.secret_ok THEN 403
    ELSE 200

NewSession_Shared(all) == 1

\* BrowserManager(...).__aenter__(): playwright, browser, context and page
\* are created by the call; the new session is numbered after those that
\* exist
NewSession(all) == Len(all) + 1

SessionsIdle ==
    /\ rq_handler = [r \in Requests |-> "none"]
    /\ rq_in = [r \in Requests |-> [rate_ok |-> FALSE, secret_ok |-> FALSE]]
    /\ rq_pc = [r \in Requests |-> "off"]
    /\ rq_step = [r \in Requests |-> 0]
    /\ rq_session = [r \in Requests |-> 0]
    /\ sessions = <<>>
    /\ uses = {}

SessionsInit ==
    /\ rq_handler \in [Requests -> Handlers]
    /\ rq_in \in [Requests -> RequestInputs]
    /\ rq_pc = [r \in Requests |-> "received"]
    /\ rq_step = [r \in Requests |-> 0]
    /\ rq_session = [r \in Requests |-> 0]
    /\ sessions = <<>>
    /\ uses = {}

othersOfSessions ==
    <<pipelineVars, solveVars, fileVars, detectVars, formVars, rateVars,
      cacheVars, downloadVars>>

\* the handler runs from its entry to the `try`, or raises HTTPException
AdmitRequest(r) ==
    /\ rq_pc[r] = "received"
    /\ rq_pc' = [rq_pc EXCEPT ![r] =
                     IF Admission(rq_handler[r], rq_in[r]) = 200
                     THEN "admitted" ELSE "rejected"]
    /\ UNCHANGED <<rq_handler, rq_in, rq_step, rq_session, sessions, uses,
                   othersOfSessions>>

\* `async with BrowserManager(...) as browser`: __aenter__ returns the
\* manager with its own session, or raises and the handler's except branch
\* answers
EnterSession(r) ==
    /\ rq_pc[r] = "admitted"
    /\ \/ LET id == NewSession(sessions)
          IN  /\ sessions' = IF id > Len(sessions)
                             THEN Append(sessions, [creator |-> r, open |-> TRUE])
                             ELSE sessions
              /\ rq_session' = [rq_session EXCEPT ![r] = id]
              /\ rq_pc' = [rq_pc EXCEPT ![r] = "inside"]
       \/ /\ rq_pc' = [rq_pc EXCEPT ![r] = "answered"]
          /\ UNCHANGED <<sessions, rq_session>>
    /\ UNCHANGED <<rq_handler, rq_in, rq_step, uses, othersOfSessions>>

\* one awaited operation on browser.page inside the body; it may raise,
\* which leaves the body
PageOperation(r) ==
    /\ rq_pc[r] = "inside"
    /\ rq_step[r] < Len(PageOps(rq_handler[r]))
    /\ uses' = uses \cup {[request |-> r, session |-> rq_session[r],
                           op |-> PageOps(rq_handler[r])[rq_step[r] + 1]]}
    /\ \/ /\ rq_step' = [rq_step EXCEPT ![r] = @ + 1]
          /\ UNCHANGED rq_pc
       \/ /\ rq_pc' = [rq_pc EXCEPT ![r] = "leaving"]
          /\ UNCHANGED rq_step
    /\ UNCHANGED <<rq_handler, rq_in, rq_session, sessions, othersOfSessions>>

\* the end of the body
BodyDone(r) ==
    /\ rq_pc[r] = "inside"
    /\ rq_step[r] = Len(PageOps(rq_handler[r]))
    /\ rq_pc' = [rq_pc EXCEPT ![r] = "leaving"]
    /\ UNCHANGED <<rq_handler, rq_in, rq_step, rq_session, sessions, uses,
                   othersOfSessions>>

\* __aexit__: the manager closes its browser and stops its playwright
ExitSession(r) ==
    /\ rq_pc[r] = "leaving"
    /\ sessions' = [sessions EXCEPT ![rq_session[r]].open = FALSE]
    /\ rq_pc' = [rq_pc EXCEPT ![r] = "answered"]
    /\ UNCHANGED <<rq_handler, rq_in, rq_step, rq_session, uses, othersOfSessions>>

AdmitSome == \E r \in Requests : AdmitRequest(r)
EnterSome == \E r \in Requests : EnterSession(r)
OperateSome == \E r \in Requests : PageOperation(r)
BodyDoneSome == \E r \in Requests : BodyDone(r)
ExitSome == \E r \in Requests : ExitSession(r)

SessionsNext == AdmitSome \/ EnterSome \/ OperateSome \/ BodyDoneSome \/ ExitSome

\* ------------------------------------------ BrowserManager._submit_via_form

MaxControls == 2

\* the keys of answer_data as submit_answer (app.py) builds it, in order
AnswerKeys == <<"email", "secret", "answer", "metadata", "submitted_at">>

\* the `type` attribute of a control; "None" when the element has none
ControlTypes ==
    {"text", "email", "hidden", "radio", "checkbox", "file", "password", "None"}

\* the forms: for every key, the type of the first element of the form whose
\* name or id is the key, "absent" when there is none
Forms ==
    {f \in [{AnswerKeys[i] : i \in 1..Len(AnswerKeys)}
                -> ControlTypes \cup {"absent"}] :
        Cardinality({k \in DOMAIN f : f[k] # "absent"}) <= MaxControls}

\* what the value of the 'answer' key is: a string naming a file on disk, a
\* string naming no file, or a number
AnswerKinds == {"path", "text", "number"}

\* the kind of the value of a key; email, secret and submitted_at are
\* strings naming no file, metadata is a dictionary
ValueKind(field, answerKind) ==
    CASE field = "answer" -> answerKind
      [] field = "metadata" -> "dict"
      [] OTHER -> "text"

Fillable_Every(field) == TRUE

\* if field in ['email', 'secret', 'answer']
Fillable(field) == field \in {"email", "secret", "answer"}

\* the operation on a control of a given type for a value of a given kind,
\* "none" when the control is left alone
ControlOperation(input_type, kind) ==
    CASE input_type \in {"text", "email", "hidden"} -> "fill"
      [] input_type \in {"radio", "checkbox"} -> "check"
      [] input_type = "file" ->
             IF kind = "path" THEN "set_input_files" ELSE "none"
      [] OTHER -> "none"

FormIdle ==
    /\ fm_pc = "off"
    /\ fm_form = [k \in {AnswerKeys[i] : i \in 1..Len(AnswerKeys)} |-> "absent"]
    /\ fm_answer = "text"
    /\ fm_i = 1
    /\ fm_ops = <<>>

FormInit ==
    /\ fm_pc = "fields"
    /\ fm_form \in Forms
    /\ fm_answer \in AnswerKinds
    /\ fm_i = 1
    /\ fm_ops = <<>>

othersOfForm == <<pipelineVars, solveVars, fileVars, detectVars, sessionVars,
                  rateVars, cacheVars, downloadVars>>

\* one pass of `for field, value in answer_data.items()`
FormField ==
    /\ fm_pc = "fields"
    /\ fm_i <= Len(AnswerKeys)
    /\ LET field == AnswerKeys[fm_i]
           op == IF Fillable(field) /\ fm_form[field] # "absent"
                 THEN ControlOperation(fm_form[field],
                                       ValueKind(field, fm_answer))
                 ELSE "none"
       IN  fm_ops' = IF op = "none" THEN fm_ops
                     ELSE Append(fm_ops, [field |-> field, op |-> op])
    /\ fm_i' = fm_i + 1
    /\ UNCHANGED <<fm_pc, fm_form, fm_answer, othersOfForm>>

\* form.submit(), the wait for the load and the return
FormSubmit ==
    /\ fm_pc = "fields"
    /\ fm_i > Len(AnswerKeys)
    /\ fm_pc' = "submitted"
    /\ UNCHANGED <<fm_form, fm_answer, fm_i, fm_ops, othersOfForm>>

FormNext == FormField \/ FormSubmit

\* ------------------------------------------------------- check_rate_limit
\* rate_limit_cache maps a client IP to the list of the times of its admitted
\* requests; time is int(time.time()), in whole seconds.

\* `if request_count >= 100`
RateLimit == 100

\* `window_start = current_time - 60`
WindowSeconds == 60

\* request.client.host or "unknown"
Clients == {"10.0.0.1", "unknown"}

\* the times at which calls are made: two calls WindowSeconds - 1 apart, and
\* two WindowSeconds apart
CallTimes == {0, 59, 60}

InWindow_Short(t, current_time) == t > current_time - (WindowSeconds - 1)

\* the filter of the list comprehension: t > window_start
InWindow(t, current_time) == t > current_time - WindowSeconds

\* [t for t in rate_limit_cache.get(client_ip, []) if t > window_start]
Recent(times, current_time) ==
    SelectSeq(times, LAMBDA t : InWindow(t, current_time))

RateIdle ==
    /\ rl_pc = "off"
    /\ rl_ip = "unknown"
    /\ rl_clock = 0
    /\ rate_limit_cache = [c \in Clients |-> <<>>]
    /\ rl_admitted = [t \in CallTimes |-> 0]
    /\ rl_ret = "none"

\* rate_limit_cache = {}: .get(client_ip, []) reads a missing key as []
RateInit ==
    /\ rl_pc = "serving"
    /\ rl_ip \in Clients
    /\ rl_clock = 0
    /\ rate_limit_cache = [c \in Clients |-> <<>>]
    /\ rl_admitted = [t \in CallTimes |-> 0]
    /\ rl_ret = "none"

othersOfRate ==
    <<pipelineVars, solveVars, fileVars, detectVars, sessionVars, formVars,
      cacheVars, downloadVars>>

\* one call of check_rate_limit(rl_ip)
CheckRateLimit ==
    /\ rl_pc = "serving"
    /\ LET current_time == rl_clock
           kept == Recent(rate_limit_cache[rl_ip], current_time)
           request_count == Len(kept)
       IN  IF request_count >= RateLimit
           THEN /\ rate_limit_cache' = [rate_limit_cache EXCEPT ![rl_ip] = kept]
                /\ rl_ret' = "False"
                /\ UNCHANGED rl_admitted
           ELSE /\ rate_limit_cache' =
                       [rate_limit_cache EXCEPT
                           ![rl_ip] = Append(kept, current_time)]
                /\ rl_ret' = "True"
                /\ rl_admitted' = [rl_admitted EXCEPT ![current_time] = @ + 1]
    /\ UNCHANGED <<rl_pc, rl_ip, rl_clock, othersOfRate>>

\* time passes between two calls
ClockAdvances ==
    /\ rl_pc = "serving"
    /\ \E t \in CallTimes : t > rl_clock /\ rl_clock' = t
    /\ UNCHANGED <<rl_pc, rl_ip, rate_limit_cache, rl_admitted, rl_ret,
                   othersOfRate>>

RateNext == CheckRateLimit \/ ClockAdvances

\* ---------------------------------------------------------- CacheManager
\* request_cache maps a request id to {'data', 'expires_at'}; time is
\* datetime.utcnow(), in whole seconds.

MaxCacheClock == 3

\* request ids
RequestIds == {"req_a", "req_b"}

\* the ttl arguments tried, in seconds
Ttls == {1, 2}

\* a key request_cache does not hold: .get(request_id) returns None
Absent == [data |-> "None", expires_at |-> 0]

\* CacheManager.get_request: request_cache.get(request_id)
GetRequest(cache, request_id) == cache[request_id]

\* cleanup: expired_keys = [k ... if v['expires_at'] < now]
Expired(entry, now) == entry # Absent /\ entry.expires_at < now

CacheIdle ==
    /\ ch_pc = "off"
    /\ ch_clock = 0
    /\ request_cache = [k \in RequestIds |-> Absent]
    /\ ch_got = [at |-> 0, entry |-> Absent]

\* request_cache = {}
CacheInit ==
    /\ ch_pc = "serving"
    /\ ch_clock = 0
    /\ request_cache = [k \in RequestIds |-> Absent]
    /\ ch_got = [at |-> 0, entry |-> Absent]

othersOfCache ==
    <<pipelineVars, solveVars, fileVars, detectVars, sessionVars, formVars,
      rateVars, downloadVars>>

\* CacheManager.set_request(request_id, data, ttl)
SetRequest ==
    /\ ch_pc = "serving"
    /\ \E request_id \in RequestIds, ttl \in Ttls :
           request_cache' =
               [request_cache EXCEPT
                   ![request_id] = [data |-> "processed",
                                    expires_at |-> ch_clock + ttl]]
    /\ UNCHANGED <<ch_pc, ch_clock, ch_got, othersOfCache>>

\* a call of CacheManager.get_request(request_id) and what it returns
GetRequestCall ==
    /\ ch_pc = "serving"
    /\ \E request_id \in RequestIds :
           ch_got' = [at |-> ch_clock,
                      entry |-> GetRequest(request_cache, request_id)]
    /\ UNCHANGED <<ch_pc, ch_clock, request_cache, othersOfCache>>

\* CacheManager.cleanup(), whenever cleanup_task runs it
Cleanup ==
    /\ ch_pc = "serving"
    /\ request_cache' =
           [k \in RequestIds |->
               IF Expired(request_cache[k], ch_clock)
               THEN Absent ELSE request_cache[k]]
    /\ UNCHANGED <<ch_pc, ch_clock, ch_got, othersOfCache>>

\* a second passes
CacheClockTick ==
    /\ ch_pc = "serving"
    /\ ch_clock < MaxCacheClock
    /\ ch_clock' = ch_clock + 1
    /\ UNCHANGED <<ch_pc, request_cache, ch_got, othersOfCache>>

CacheNext == SetRequest \/ GetRequestCall \/ Cleanup \/ CacheClockTick

\* ------------------------------------------- BrowserManager.download_file
\* Two requests, each with its own BrowserManager, call download_file with
\* the default save_path; settings.DOWNLOADS_DIR is one directory for all.
\* A URL is the sequence of its pieces between "/".

DownloadCalls == {1, 2}

Urls ==
    {<<"https:", "", host, dir, name>> :
        host \in {"a.example", "b.example"},
        dir \in {"q1", "q2"},
        name \in {"data.csv", "report.pdf"}}

\* Path(url).name: the last piece of the path
PathName(url) == url[Len(url)]

\* save_path = Path(settings.DOWNLOADS_DIR) / Path(url).name
DefaultSavePath(url) == <<"downloads", PathName(url)>>

SavePaths == {DefaultSavePath(u) : u \in Urls}

NoFile == <<>>

DownloadIdle ==
    /\ dl_pc = [c \in DownloadCalls |-> "off"]
    /\ dl_url = [c \in DownloadCalls |-> <<>>]
    /\ dl_path = [c \in DownloadCalls |-> <<>>]
    /\ dl_files = [p \in SavePaths |-> NoFile]
    /\ dl_result = [c \in DownloadCalls |-> NoFile]

\* two calls for two different URLs
DownloadInit ==
    /\ dl_pc = [c \in DownloadCalls |-> "called"]
    /\ dl_url \in {f \in [DownloadCalls -> Urls] : f[1] # f[2]}
    /\ dl_path = [c \in DownloadCalls |-> <<>>]
    /\ dl_files = [p \in SavePaths |-> NoFile]
    /\ dl_result = [c \in DownloadCalls |-> NoFile]

othersOfDownload ==
    <<pipelineVars, solveVars, fileVars, detectVars, sessionVars, formVars,
      rateVars, cacheVars>>

\* from the entry to `await self.page.goto(url)`: the destination is chosen
StartDownload(c) ==
    /\ dl_pc[c] = "called"
    /\ dl_path' = [dl_path EXCEPT ![c] = DefaultSavePath(dl_url[c])]
    /\ dl_pc' = [dl_pc EXCEPT ![c] = "waiting"]
    /\ UNCHANGED <<dl_url, dl_files, dl_result, othersOfDownload>>

\* `await download_info.value` and `await download.save_as(str(save_path))`:
\* the file of this call's URL is written at save_path; or the navigation or
\* the download fails and the exception is raised again
SaveAs(c) ==
    /\ dl_pc[c] = "waiting"
    /\ \/ /\ dl_files' = [dl_files EXCEPT ![dl_path[c]] = dl_url[c]]
          /\ dl_pc' = [dl_pc EXCEPT ![c] = "saved"]
       \/ /\ dl_pc' = [dl_pc EXCEPT ![c] = "raised"]
          /\ UNCHANGED dl_files
    /\ UNCHANGED <<dl_url, dl_path, dl_result, othersOfDownload>>

\* the call resumes after save_as: magic.from_file, stat and open read the
\* file at save_path, and the dictionary is returned
ReadBack(c) ==
    /\ dl_pc[c] = "saved"
    /\ dl_result' = [dl_result EXCEPT ![c] = dl_files[dl_path[c]]]
    /\ dl_pc' = [dl_pc EXCEPT ![c] = "returned"]
    /\ UNCHANGED <<dl_url, dl_path, dl_files, othersOfDownload>>

StartSome == \E c \in DownloadCalls : StartDownload(c)
SaveSome == \E c \in DownloadCalls : SaveAs(c)
ReadSome == \E c \in DownloadCalls : ReadBack(c)

DownloadNext == StartSome \/ SaveSome \/ ReadSome

\* ------------------------------------------------------- specifications

PipelineIdle == ParseIdle /\ RunIdle /\ RetryIdle /\ SubmitIdle
\* the components outside the pipeline at rest, but for the one named
HelpersIdleBut(c) ==
    /\ IF c = "solve" THEN TRUE ELSE SolveIdle
    /\ IF c = "file" THEN TRUE ELSE FileIdle
    /\ IF c = "detect" THEN TRUE ELSE DetectIdle
    /\ IF c = "sessions" THEN TRUE ELSE SessionsIdle
    /\ IF c = "form" THEN TRUE ELSE FormIdle
    /\ IF c = "rate" THEN TRUE ELSE RateIdle
    /\ IF c = "cache" THEN TRUE ELSE CacheIdle
    /\ IF c = "download" THEN TRUE ELSE DownloadIdle

HelpersIdle == HelpersIdleBut("none")

\* one request to POST /submit
Init == ParseIdle /\ RunInit /\ RetryIdle /\ SubmitIdle /\ HelpersIdle
Spec == Init /\ [][RunNext]_vars

\* one construction of a QuizSolver
InitParse == ParseInit /\ RunIdle /\ RetryIdle /\ SubmitIdle /\ HelpersIdle
SpecParse == InitParse /\ [][ParseNext]_vars

\* one call of submit_quiz_answers
InitRetry == ParseIdle /\ RunIdle /\ RetryInit /\ SubmitIdle /\ HelpersIdle
SpecRetry == InitRetry /\ [][RetryNext]_vars

\* one call of submit_quiz_answer
InitSubmit == ParseIdle /\ RunIdle /\ RetryIdle /\ SubmitInit /\ HelpersIdle
SpecSubmit == InitSubmit /\ [][SubmitNext]_vars

\* QuizSolver.solve_quiz / solve_all on a parsed solver
InitSolve == PipelineIdle /\ HelpersIdleBut("solve") /\ SolveInit
SpecSolve == InitSolve /\ [][SolveNext]_vars

\* one call of extract_text_from_file
InitFile == PipelineIdle /\ HelpersIdleBut("file") /\ FileInit
SpecFile == InitFile /\ [][FileNext]_vars

\* question detection on a fetched page, then the solver built on its result
InitDetect == PipelineIdle /\ HelpersIdleBut("detect") /\ DetectInit
SpecDetect == InitDetect /\ [][DetectNext]_vars

\* requests served concurrently, each by a handler that opens a session
InitSessions == PipelineIdle /\ HelpersIdleBut("sessions") /\ SessionsInit
SpecSessions == InitSessions /\ [][SessionsNext]_vars

\* one call of _submit_via_form
InitForm == PipelineIdle /\ HelpersIdleBut("form") /\ FormInit
SpecForm == InitForm /\ [][FormNext]_vars

\* calls of check_rate_limit for one client as time passes
InitRate == PipelineIdle /\ HelpersIdleBut("rate") /\ RateInit
SpecRate == InitRate /\ [][RateNext]_vars

\* calls of CacheManager as time passes
InitCache == PipelineIdle /\ HelpersIdleBut("cache") /\ CacheInit
SpecCache == InitCache /\ [][CacheNext]_vars

\* two concurrent calls of download_file
InitDownload == PipelineIdle /\ HelpersIdleBut("download") /\ DownloadInit
SpecDownload == InitDownload /\ [][DownloadNext]_vars

\* ---------------------------------------------------------------- claims

\* the request was answered after a run in which nothing was cancelled and
\* __aexit__ ran to its end
CleanRunAnswered ==
    /\ pc = "responded"
    /\ ~timerFired
    /\ browser = "closed"
    /\ playwright = "stopped"

\* C1: when less than 10 seconds remain after solving, submit_answers is not
\* called and the run ends with the recorded outcome "Timeout before
\* submission".
C1_TimeoutBeforeSubmission ==
    (CleanRunAnswered /\ solveLeft # <<>> /\ solveLeft[1] < SubmitReserve)
        => /\ submitCalls = 0
           /\ result.status = "success"
           /\ result.submission = "Timeout before submission"

\* C2: when the fetch succeeded and more than 10 seconds remain after
\* solving, submit_answers was called before the run returned.
C2_SubmissionAttempted ==
    (CleanRunAnswered /\ solveLeft # <<>> /\ solveLeft[1] > SubmitReserve)
        => submitCalls >= 1

TaskEnded == pc \in {"task_returned", "task_cancelled", "task_raised", "responded"}

C4_SessionReleased ==
    pc = "responded" => (browser # "open" /\ playwright # "running")

\* C5: an operation of the fetch or of the solving that is awaited when the
\* deadline start_time + timeout passes is abandoned: none completes after it.
C5_DeadlineAbandons ==
    (pc \in {"settle", "content", "evaluate", "parse", "solve"} /\ exc = "none")
        => clock <= timeout

Failed(k) == ~attempts[k].signal

\* C6: an attempt that shows the success signal after N failed ones is the
\* last attempt, attempt N+1 <= max_retries, and the call has returned
\* status "success".
C6_SuccessAfterFailures ==
    \A k \in 1..Len(attempts) :
        attempts[k].signal
            => /\ k = Len(attempts)
               /\ k <= max_retries
               /\ \A j \in 1..(k - 1) : Failed(j)
               /\ sq_pc = "returned"
               /\ sq_result = [status |-> "success"]

C6_Witness ==
    /\ sq_pc = "returned"
    /\ Len(attempts) = 3
    /\ Failed(1) /\ Failed(2) /\ attempts[3].signal
    /\ attempts[1].error = "error in goto"
    /\ attempts[2].error = "Unknown submission error"

\* C7: after max_retries failed attempts the call returns status "error" with
\* the last error, having made exactly max_retries attempts and slept only
\* between them; it never sleeps after the last failure.
C7_TerminalFailure ==
    /\ Len(attempts) <= max_retries
    /\ sq_pc = "backoff" => Len(attempts) < max_retries
    /\ (sq_pc = "returned" /\ \A k \in 1..Len(attempts) : Failed(k))
           => /\ Len(attempts) = max_retries
              /\ sq_result.status = "error"
              /\ sq_result.error = IF attempts = <<>> THEN "None"
                                   ELSE attempts[Len(attempts)].error
              /\ Len(sleeps) = Max(0, max_retries - 1)

C7_Witness ==
    /\ sq_pc = "returned"
    /\ max_retries = 3
    /\ Len(attempts) = 3
    /\ \A k \in 1..3 : Failed(k)
    /\ sq_result.status = "error"
    /\ sq_result.error = "error in click"

SubmitAnswerEnded == sa_pc \in {"returned", "raised"}

ExpectedPath == IF sa_page.forms >= 1 THEN "form" ELSE "api"

\* C8 as stated: every call invokes exactly one delivery sub-routine, the form
\* path when the page has a form and the API path if and only if it has none.
C8_ExactlyOnePerCall ==
    SubmitAnswerEnded => sa_invoked = <<ExpectedPath>>

\* C8 as amended: a call invokes at most one delivery sub-routine, and exactly
\* one when the navigation and the form query succeed: the form path when the
\* page has a form, the API path if and only if it has none.
C8_OnePathWhenPageReached ==
    /\ Len(sa_invoked) <= 1
    /\ sa_invoked # <<>> => sa_invoked = <<ExpectedPath>>
    /\ (SubmitAnswerEnded /\ sa_raisedIn \notin {"goto", "query"})
           => sa_invoked = <<ExpectedPath>>

C8_Witness ==
    /\ sa_pc = "returned"
    /\ sa_page.forms = 2
    /\ sa_invoked = <<"form">>

\* C9: with a `questions` array in the quiz data, the questions held after
\* parsing are the entries of that array, in order, and nothing else.
C9_OnlyStructuredQuestions ==
    (ps_pc = "parsed" /\ quiz_data.hasQuestions)
        => /\ Len(questions) = Len(quiz_data.questions)
           /\ \A i \in 1..Len(questions) :
                  questions[i].question_text = Strip(quiz_data.questions[i].text)

ExplicitIdsDistinct ==
    \A i, j \in 1..Len(quiz_data.questions) :
        (i # j /\ quiz_data.questions[i].id # None)
            => quiz_data.questions[i].id # quiz_data.questions[j].id

\* C10: after parsing, no two questions share an id and explicit ids are kept
\* (stated here for the inputs whose explicit ids are themselves distinct).
C10_UniqueIds ==
    (ps_pc = "parsed" /\ ExplicitIdsDistinct)
        => /\ \A i, j \in 1..Len(questions) :
                  i # j => questions[i].question_id # questions[j].question_id
           /\ \A i \in 1..Len(quiz_data.questions) :
                  quiz_data.questions[i].id # None
                      => questions[i].question_id = quiz_data.questions[i].id

\* C11: solve_quiz never raises: a question whose answering fails gets an
\* error entry, the loop goes on, and the returned list has one entry per
\* question, in question order.
C11_FailureDoesNotAbort ==
    sv_method = "solve_quiz"
        => /\ sv_pc # "raised"
           /\ Len(sv_out) = sv_i - 1
           /\ sv_pc = "returned" => Len(sv_out) = Len(sv_questions)
           /\ \A i \in 1..Len(sv_out) :
                  /\ sv_out[i].question_id = sv_questions[i].question_id
                  /\ sv_out[i].question_type = sv_questions[i].question_type

\* solve_quiz has returned for two questions, the first of which failed in
\* _solve_question
C11_Witness ==
    /\ sv_method = "solve_quiz" /\ sv_pc = "returned"
    /\ Len(sv_questions) = 2 /\ Len(sv_out) = 2
    /\ sv_out[1].error = "KeyError" /\ sv_out[1].answer = None
    /\ sv_out[2].question_id = sv_questions[2].question_id

\* C16: solve_all returns one entry per question, in question order, each
\* carrying the id of its question (the explicit id when the source gave
\* one) and the answer produced for it.
C16_EntriesCarryOwnIds ==
    (sv_method = "solve_all" /\ sv_pc = "returned")
        => /\ Len(sv_out) = Len(sv_questions)
           /\ \A i \in 1..Len(sv_out) :
                  /\ sv_out[i].question_id = sv_questions[i].question_id
                  /\ \E o \in SolveQuestion(sv_questions[i]) :
                         ~o.raised /\ sv_out[i].answer = o.answer

\* the try statement of extract_text_from_file was left by an exception
PrimaryRaised ==
    /\ fx_pc = "returned"
    /\ PrimaryExtract(Dispatch(fx_type), fx_call).raised

\* C12: extract_text_from_file never lets an exception reach its caller: a
\* missing file, a failing sniff and a failing parser all end in a returned
\* result with the failure in its error field.
C12_NeverPropagates ==
    /\ fx_pc # "raised"
    /\ PrimaryRaised => "error" \in fx_result.keys

\* C13: when the primary path raises for an OCR-eligible file, OCR is
\* retried exactly once and the metadata records ocr_used and
\* ocr_fallback.
C13_OcrFallbackRecorded ==
    (PrimaryRaised /\ IsOcrSupported(fx_result.metadata.file_extension))
        => /\ Len(SelectSeq(fx_routines, LAMBDA r : r.phase = "fallback")) = 1
           /\ {"ocr_used", "ocr_fallback"} \subseteq fx_result.metadata.keys

\* C14: a media type outside the supported branches gives a returned result
\* with empty text and the unsupported media type recorded in its error
\* field.
C14_UnsupportedTypeRecorded ==
    (fx_pc \in {"returned", "raised"} /\ fx_type # None
     /\ Dispatch(fx_type) = "unsupported")
        => /\ fx_pc = "returned"
           /\ fx_result.text = ""
           /\ "error" \in fx_result.keys

\* C15: the raw response of every returned submission result is at most
\* ResponseLimit characters long, whichever delivery path produced it.
C15_RawResponseBounded ==
    sa_pc = "returned" => sa_result.responseLen <= ResponseLimit

\* C17: for the page text "Q1. What is 2+2?" / "Q2. What is the capital of
\* France?" detection returns exactly two questions, q1 and q2 in that
\* order, both of type text.
C17_TwoQuestionsOnce ==
    (dq_pc = "identified" /\ dq_content = SampleQuiz)
        => /\ Len(dq_questions) = 2
           /\ dq_questions[1].id = <<"q", "1">>
           /\ dq_questions[2].id = <<"q", "2">>
           /\ \A i \in 1..Len(dq_questions) : dq_questions[i].type = "text"

\* C18: the ids of the returned list are q1, q2, ..., qn in list order and
\* no returned question has a text shorter than MinQuestionLen: a dropped
\* candidate consumes no id.
C18_IdsWithoutGaps ==
    dq_pc = "identified"
        => \A i \in 1..Len(dq_questions) :
               /\ dq_questions[i].id = QId(i)
               /\ Len(dq_questions[i].text) >= MinQuestionLen

\* detection has dropped the first candidate of the numbering pattern and
\* kept a later one
C18_Witness ==
    /\ dq_pc = "identified"
    /\ LET matches == FindAll("numbering", dq_content, 1)
       IN  /\ Len(matches) >= 2
           /\ Len(Strip(matches[1].text)) < MinQuestionLen
           /\ Len(Strip(matches[2].text)) >= MinQuestionLen
    /\ dq_questions # <<>>
    /\ dq_questions[1].type = "numbering"
    /\ dq_questions[1].id = <<"q", "1">>

\* the question types of the specification's data model
QuestionTypes == {"text", "number", "boolean", "multiple_choice", "file", "json"}

\* C19: every question record of detection, as returned by
\* _identify_questions and as parsed from it by QuizSolver, has a type in
\* QuestionTypes.
C19_TypesInDomain ==
    /\ \A i \in 1..Len(dq_questions) : dq_questions[i].type \in QuestionTypes
    /\ \A i \in 1..Len(questions) : questions[i].question_type \in QuestionTypes

\* C20: every page operation of a request is performed on the session that
\* this request created; no session serves two requests.
C20_OwnSession ==
    \A u \in uses :
        /\ u.session \in 1..Len(sessions)
        /\ sessions[u.session].creator = u.request
        /\ \A v \in uses : v.session = u.session => v.request = u.request

\* two requests are inside their `async with` bodies at once and both have
\* operated on their pages
C20_Witness ==
    /\ \A r \in Requests : rq_pc[r] = "inside" /\ rq_step[r] >= 1
    /\ \E u, v \in uses : u.request # v.request

\* C21: the k-th wait of a call lasts 2^k seconds and follows the k-th
\* failed attempt, with k < max_retries; attempt k+1 starts only after it,
\* and no wait follows the last attempt.
C21_ExponentialBackoff ==
    /\ \A k \in 1..Len(sleeps) :
           /\ sleeps[k] = 2 ^ k
           /\ k < max_retries
           /\ k <= Len(attempts) /\ Failed(k)
    /\ Len(attempts) >= 1 => Len(sleeps) >= Len(attempts) - 1
    /\ sq_pc = "backoff" => Len(sleeps) = Len(attempts) - 1
    /\ (sq_pc = "returned" /\ Len(attempts) >= 1)
           => Len(sleeps) = Len(attempts) - 1

\* a call with three attempts has ended after waiting 2 and then 4 seconds
C21_Witness ==
    /\ sq_pc = "returned"
    /\ Len(attempts) = 3
    /\ sleeps = <<2, 4>>

\* C26: once an attempt has clicked the submit control and the page load
\* after it has completed, no later attempt of the call clicks it again.
C26_DeliveredAtMostOnce ==
    \A i, j \in 1..Len(attempts) :
        (i < j /\ attempts[i].clicked /\ attempts[i].loaded)
            => ~attempts[j].clicked

\* C27: a call returns status success only when its last attempt found a
\* submit control and clicked it.
C27_SuccessNeedsClick ==
    (sq_pc = "returned" /\ sq_result.status = "success")
        => attempts[Len(attempts)].clicked

\* what the form path is expected to do to a control of a given type for a
\* value of a given kind
ExpectedOperation(input_type, kind) ==
    CASE input_type \in {"text", "email", "hidden"} -> "fill"
      [] input_type \in {"radio", "checkbox"} -> "check"
      [] input_type = "file" /\ kind = "path" -> "set_input_files"
      [] OTHER -> "none"

\* the operations performed on the control of a key
OpsOn(field) == SelectSeq(fm_ops, LAMBDA o : o.field = field)

\* the control of a key was handled as its type asks, once
HandledByType(field) ==
    LET expected == ExpectedOperation(fm_form[field],
                                      ValueKind(field, fm_answer))
    IN  IF expected = "none" THEN OpsOn(field) = <<>>
        ELSE OpsOn(field) = <<[field |-> field, op |-> expected]>>

\* C22 as stated: after the form path, every key of the answer set that has
\* a control in the form was handled as the type of that control asks.
C22_EveryCommonFieldSet ==
    fm_pc = "submitted"
        => \A field \in DOMAIN fm_form :
               fm_form[field] # "absent" => HandledByType(field)

\* C22 amended: the keys email, secret and answer that have a control in
\* the form are handled as the type of the control asks; no other key of
\* the answer set is written to the form.
C22_ListedFieldsSet ==
    fm_pc = "submitted"
        => \A field \in DOMAIN fm_form :
               IF field \in {"email", "secret", "answer"}
               THEN fm_form[field] # "absent" => HandledByType(field)
               ELSE OpsOn(field) = <<>>

\* the form path has injected an existing file for the answer and has left
\* alone the text control named metadata
C22_Witness ==
    /\ fm_pc = "submitted"
    /\ fm_form["answer"] = "file" /\ fm_answer = "path"
    /\ fm_form["metadata"] = "text"
    /\ fm_ops = <<[field |-> "answer", op |-> "set_input_files"]>>

\* the admission a request is owed before any session: the secret matched,
\* and for the handlers of app.py the rate-limit check passed
Granted(r) ==
    /\ rq_in[r].secret_ok
    /\ rq_handler[r] \in RateLimited => rq_in[r].rate_ok

\* request r has acquired a session or started its processing
Started(r) ==
    \/ rq_session[r] # 0
    \/ rq_pc[r] \in {"inside", "leaving"}
    \/ \E i \in 1..Len(sessions) : sessions[i].creator = r
    \/ \E u \in uses : u.request = r

\* C23: no browser session is acquired and no page operation is performed
\* for a request unless its admission was granted first (rate limit passed
\* and secret matched in process_quiz and submit_answer, secret matched in
\* submit_quiz), and a rejected request never has a session.
C23_AdmissionBeforeSession ==
    \A r \in Requests :
        /\ Started(r) => Granted(r)
        /\ rq_pc[r] = "rejected" => ~Started(r)
        /\ ~Granted(r) => rq_pc[r] \in {"received", "rejected"}

\* one request was rejected while the other, admitted, holds a session and
\* has operated on its page
C23_Witness ==
    /\ rq_pc[1] = "rejected"
    /\ ~rq_in[1].secret_ok
    /\ rq_pc[2] = "inside"
    /\ rq_step[2] >= 1
    /\ rq_handler[2] \in RateLimited

\* C24: once process_quiz_submission runs, the budget its submission reserve
\* is checked against is the timeout supplied with the request.
C24_BudgetIsRequestTimeout ==
    pc \notin {"off", "request", "responded"} => timeout = req.timeout

\* C25: in solve_quiz, the entry of a question whose answering cannot fail
\* carries a value _solve_question returns for it as its answer and records
\* no error.
C25_AnsweredEntryKeepsAnswer ==
    sv_method = "solve_quiz" =>
        \A i \in 1..Len(sv_out) :
            (\A o \in SolveQuestion(sv_questions[i]) : ~o.raised) =>
                /\ sv_out[i].error = ""
                /\ \E o \in SolveQuestion(sv_questions[i]) :
                       sv_out[i].answer = o.answer

\* the number of calls admitted at the times from..to
AdmittedWithin(from, to) ==
    LET inside == {t \in CallTimes : from <= t /\ t <= to}
        Sum[S \in SUBSET CallTimes] ==
            IF S = {} THEN 0
            ELSE LET t == CHOOSE t \in S : TRUE
                 IN  rl_admitted[t] + Sum[S \ {t}]
    IN  Sum[inside]

\* the number of times t stands in a list
Occurrences(times, t) == Len(SelectSeq(times, LAMBDA x : x = t))

\* C28: in every window of 60 consecutive seconds at most 100 calls of
\* check_rate_limit for the client returned True, and the client's record
\* holds no time but those of admitted calls, each no more often than calls
\* were admitted at it (a rejected call records nothing).  A window holds
\* what the window starting at its first call time holds, so the windows
\* starting at a call time stand for all.
C28_AtMostLimitPerWindow ==
    /\ \A w \in CallTimes :
           AdmittedWithin(w, w + WindowSeconds - 1) <= RateLimit
    /\ \A t \in CallTimes :
           Occurrences(rate_limit_cache[rl_ip], t) <= rl_admitted[t]
    /\ \A i \in 1..Len(rate_limit_cache[rl_ip]) :
           rate_limit_cache[rl_ip][i] \in CallTimes
    /\ \A c \in Clients \ {rl_ip} : rate_limit_cache[c] = <<>>

\* the client was admitted RateLimit times in the first second and is
\* rejected WindowSeconds - 1 seconds later
C28_Witness ==
    /\ rl_clock = WindowSeconds - 1
    /\ rl_admitted[0] = RateLimit
    /\ Len(rate_limit_cache[rl_ip]) = RateLimit
    /\ rl_ret = "False"

\* C29: get_request never returns an entry at a time later than the entry's
\* expires_at.
C29_NoExpiredEntryReturned ==
    ch_got.entry # Absent => ch_got.at <= ch_got.entry.expires_at

\* C30: two concurrent download_file calls for different URLs, both with the
\* default save_path, never have the same destination, and each reports the
\* file of its own URL.
C30_DistinctDestinations ==
    \A c, d \in DownloadCalls :
        /\ (c # d /\ dl_path[c] # <<>> /\ dl_path[d] # <<>>)
               => dl_path[c] # dl_path[d]
        /\ dl_pc[c] = "returned" => dl_result[c] = dl_url[c]

====
